---- MODULE Spec2Model ----
(***************************************************************************)
(* A state-machine model of scripts/benchmark_pqc.py: the sequential PQC   *)
(* benchmark driver (main), the two benchmark functions (benchmark_kem,    *)
(* benchmark_sig) and the end-of-run CSV report.                           *)
(*                                                                         *)
(* The OQS library is the environment.  Its behaviour is an input:         *)
(*   - avail    : the mechanisms enabled in the linked liboqs build (for   *)
(*                any other name the constructor raises                    *)
(*                MechanismNotEnabledError);                               *)
(*   - latency  : for each timed step, the elapsed times a call may take;  *)
(*   - every library call may raise an error, encap/decap may disagree on  *)
(*     the shared secret and verify may return False.                      *)
(* os.makedirs, open, and the csv writes and close may raise OSError.      *)
(* The interpreter runs with assertions enabled (the default, no -O).      *)
(***************************************************************************)
EXTENDS Integers, Sequences, FiniteSets, TLC

(* ------------------------------ bounds -------------------------------- *)

\* Largest iteration count explored (the script's NUM_ITERATIONS is drawn
\* from 0..MaxIter).
MaxIter == 2

\* Elapsed times (in seconds of time.perf_counter) one timed step may take.
Durations == {0, 1}

\* Values a shared secret may take.
Secrets == {"ssA", "ssB"}

(* --------------------------- configuration ---------------------------- *)

KEM_ALGORITHMS == <<"Kyber768">>

SIGNATURE_ALGORITHMS == <<"Dilithium3", "Falcon-512", "SPHINCS+-SHA2-128f-simple">>

OUTPUT_CSV_FILE == "results/tables/pqc_benchmark_results.csv"

\* The algorithm list a loop of main iterates over.
Algorithms(c) == IF c = "KEM" THEN KEM_ALGORITHMS ELSE SIGNATURE_ALGORITHMS

RECURSIVE SeqToSet(_)
SeqToSet(s) == IF s = <<>> THEN {} ELSE {Head(s)} \cup SeqToSet(Tail(s))

AllAlgorithms == SeqToSet(KEM_ALGORITHMS) \cup SeqToSet(SIGNATURE_ALGORITHMS)

\* The three timed steps of one iteration.
Steps == {"keygen", "op2", "op3"}

(* ------------------------- library descriptor ------------------------- *)

\* kem.details / sig.details: the byte lengths liboqs reports for a
\* mechanism (values of the liboqs builds that carry these names).
Details(alg) ==
  IF alg = "Kyber768" THEN
    [length_public_key |-> 1184, length_secret_key |-> 2400, length_ciphertext |-> 1088]
  ELSE IF alg = "Dilithium3" THEN
    [length_public_key |-> 1952, length_secret_key |-> 4000, length_signature |-> 3293]
  ELSE IF alg = "Falcon-512" THEN
    [length_public_key |-> 897, length_secret_key |-> 1281, length_signature |-> 666]
  ELSE
    [length_public_key |-> 32, length_secret_key |-> 64, length_signature |-> 17088]

(* ------------------------------ helpers ------------------------------- *)

\* (end_time - start_time) * 1000: seconds of perf_counter to milliseconds.
ElapsedMs(start_time, end_time) == (end_time - start_time) * 1000

RECURSIVE Sum(_)
Sum(s) == IF s = <<>> THEN 0 ELSE Head(s) + Sum(Tail(s))

RECURSIVE GCD(_, _)
GCD(a, b) == IF b = 0 THEN a ELSE GCD(b, a % b)

\* statistics.mean of a non-empty sequence: the exact quotient sum/len, kept
\* as a fraction <<numerator, denominator>> in lowest terms.
Mean(s) ==
  LET t == Sum(s)
      n == Len(s)
      g == GCD(t, n)
  IN  <<t \div g, n \div g>>

\* Cells of a result record.
IntCell(n) == [kind |-> "int", val |-> n]
StrCell(s) == [kind |-> "str", val |-> s]
FloatCell(q) == [kind |-> "float", val |-> q]

\* One key/value item of a dict; a dict is the sequence of its items in
\* insertion order.
Item(k, v) == [key |-> k, val |-> v]

\* dict.keys(): the keys in insertion order.
Keys(d) == [k \in 1..Len(d) |-> d[k].key]

\* dict.get(key, default).
Get(d, key, default) ==
  IF \E k \in 1..Len(d) : d[k].key = key
  THEN d[CHOOSE k \in 1..Len(d) : d[k].key = key].val
  ELSE default

\* The results dict benchmark_kem returns.
KemResults(kem_name, details, keygen_times, encaps_times, decaps_times) ==
  << Item("Algorithm", StrCell(kem_name)),
     Item("Type", StrCell("KEM")),
     Item("Public Key (bytes)", IntCell(details.length_public_key)),
     Item("Secret Key (bytes)", IntCell(details.length_secret_key)),
     Item("Ciphertext (bytes)", IntCell(details.length_ciphertext)),
     Item("Signature (bytes)", StrCell("N/A")),
     Item("Keygen (ms)", FloatCell(Mean(keygen_times))),
     Item("Encaps/Sign (ms)", FloatCell(Mean(encaps_times))),
     Item("Decaps/Verify (ms)", FloatCell(Mean(decaps_times))) >>

\* Mutant of SigResults: the two size columns are inserted in the other order.
SigResultsSwapped(sig_name, details, keygen_times, sign_times, verify_times) ==
  << Item("Algorithm", StrCell(sig_name)),
     Item("Type", StrCell("Signature")),
     Item("Public Key (bytes)", IntCell(details.length_public_key)),
     Item("Secret Key (bytes)", IntCell(details.length_secret_key)),
     Item("Signature (bytes)", IntCell(details.length_signature)),
     Item("Ciphertext (bytes)", StrCell("N/A")),
     Item("Keygen (ms)", FloatCell(Mean(keygen_times))),
     Item("Encaps/Sign (ms)", FloatCell(Mean(sign_times))),
     Item("Decaps/Verify (ms)", FloatCell(Mean(verify_times))) >>

\* The results dict benchmark_sig returns.
SigResults(sig_name, details, keygen_times, sign_times, verify_times) ==
  << Item("Algorithm", StrCell(sig_name)),
     Item("Type", StrCell("Signature")),
     Item("Public Key (bytes)", IntCell(details.length_public_key)),
     Item("Secret Key (bytes)", IntCell(details.length_secret_key)),
     Item("Ciphertext (bytes)", StrCell("N/A")),
     Item("Signature (bytes)", IntCell(details.length_signature)),
     Item("Keygen (ms)", FloatCell(Mean(keygen_times))),
     Item("Encaps/Sign (ms)", FloatCell(Mean(sign_times))),
     Item("Decaps/Verify (ms)", FloatCell(Mean(verify_times))) >>

\* csv.DictWriter.writerows: one row per dict, the cells in fieldnames order
\* (restval "" for a missing key).  Every record has the header's keys, so
\* DictWriter's check for extra keys never raises.
CsvRows(header, records) ==
  [r \in 1..Len(records) |->
     [c \in 1..Len(header) |-> Get(records[r], header[c], StrCell(""))]]

(* ------------------------------- state -------------------------------- *)

VARIABLES
  avail,            \* env: mechanisms enabled in the liboqs build
  latency,          \* env: step -> set of elapsed times a call may take
  num_iterations,   \* NUM_ITERATIONS
  pc,               \* control position
  cat,              \* which loop of main runs: "KEM" or "Signature"
  idx,              \* 1-based position of `alg` in Algorithms(cat)
  all_results,      \* main: the accumulated records
  result,           \* main: the value the benchmark function returned
  handles,          \* the open OQS handles (by mechanism name)
  details,          \* benchmark: kem.details / sig.details
  iter,             \* benchmark: iterations of the for loop completed
  keygen_times,     \* benchmark: keygen samples (ms)
  op2_times,        \* benchmark: encaps_times / sign_times
  op3_times,        \* benchmark: decaps_times / verify_times
  check,            \* benchmark: operands of the pending assert
  clock,            \* time.perf_counter()
  dir_exists,       \* RESULTS_DIR exists
  file,             \* content of OUTPUT_CSV_FILE
  file_writes,      \* number of times OUTPUT_CSV_FILE was opened for writing
  stdout,           \* console lines
  exit_code,        \* process exit status ("none" while running)
  error,            \* the exception that ended the run ("none" if none)
  calls,            \* history: completed timed steps on the current handle
  started,          \* history: targets whose benchmark function was entered
  settled,          \* history: targets whose benchmark ended, with outcome
  checks_ok         \* history: per target, iterations whose assert passed

vars == << avail, latency, num_iterations, pc, cat, idx, all_results, result,
           handles, details, iter, keygen_times, op2_times, op3_times, check,
           clock, dir_exists, file, file_writes, stdout, exit_code, error,
           calls, started, settled, checks_ok >>

env == << avail, latency, num_iterations >>
bench == << details, iter, keygen_times, op2_times, op3_times, check >>
fs == << dir_exists, file, file_writes >>

None == "none"
Absent == [state |-> "absent"]
Stale == [state |-> "stale"]
Written(header, rows) == [state |-> "written", header |-> header, rows |-> rows]

\* The file after open(.., 'w') truncated it and a later write or the close
\* failed: a prefix of the report.  header and rows are the cells and lines
\* that reached the file whole (a cell cut in the middle is not kept).
Partial(header, rows) == [state |-> "partial", header |-> header, rows |-> rows]

\* The state common to every start: main has printed its banner and set
\* all_results = [].
InitProgram ==
  /\ num_iterations \in 0..MaxIter
  /\ avail \in SUBSET AllAlgorithms
  /\ pc = "main_loop"
  /\ cat = "KEM"
  /\ idx = 1
  /\ all_results = <<>>
  /\ result = None
  /\ handles = {}
  /\ details = None
  /\ iter = 0
  /\ keygen_times = <<>>
  /\ op2_times = <<>>
  /\ op3_times = <<>>
  /\ check = None
  /\ clock = 0
  /\ \/ dir_exists = FALSE /\ file = Absent
     \/ dir_exists = TRUE /\ file \in {Absent, Stale}
  /\ file_writes = 0
  /\ stdout = << [msg |-> "Starting PQC Algorithm Benchmark"] >>
  /\ exit_code = None
  /\ error = None
  /\ calls = <<>>
  /\ started = <<>>
  /\ settled = <<>>
  /\ checks_ok = [a \in AllAlgorithms |-> 0]

\* A whole run; each timed step has one fixed elapsed time in the run.
Init ==
  /\ InitProgram
  /\ latency \in [Steps -> {{d} : d \in Durations}]

\* A run in which at most one mechanism is enabled and every call may take
\* any of the elapsed times.
InitTiming ==
  /\ InitProgram
  /\ Cardinality(avail) <= 1
  /\ latency = [s \in Steps |-> Durations]

(* ------------------------------ actions ------------------------------- *)

\* The algorithm the current loop iteration of main is about.
Alg == Algorithms(cat)[idx]

\* floor(log2(a / b)) for positive a, b.
RECURSIVE Log2Floor(_, _)
Log2Floor(a, b) ==
  IF a >= b
  THEN IF a >= 2 * b THEN 1 + Log2Floor(a, 2 * b) ELSE 0
  ELSE Log2Floor(2 * a, b) - 1

\* 2^s modulo 125.
RECURSIVE Pow2Mod125(_)
Pow2Mod125(s) == IF s = 0 THEN 1 ELSE (2 * Pow2Mod125(s - 1)) % 125

\* f"{x:.3f}" of a mean, in thousandths.  x is the double nearest to the
\* exact mean q (statistics.mean rounds the exact quotient once) and the
\* format rounds the exact binary value of x, ties to even.
\*  - q is not half-way between two thousandths: x is on the same side of
\*    the half as q, the result is q rounded to nearest;
\*  - q = a/2000 with a odd is half-way.  If 125 divides a, q is a multiple
\*    of 1/16 and a double: a true tie, rounded to the even thousandth.
\*    Otherwise x is q rounded to 53 bits, x = M / 2^(52-k) with
\*    k = floor(log2 q) and M the integer nearest to a * 2^(48-k) / 125: x is
\*    below q, and the result rounds down, iff the remainder of
\*    a * 2^(48-k) modulo 125 is less than half of 125.
Fmt3(q) ==
  LET num == q[1]
      den == q[2]
      a2  == 2000 * num
  IN  IF a2 % den # 0 \/ (a2 \div den) % 2 = 0
      THEN (a2 + den) \div (2 * den)
      ELSE LET a == a2 \div den
               m == (a - 1) \div 2
           IN  IF a % 125 = 0
               THEN IF m % 2 = 0 THEN m ELSE m + 1
               ELSE LET k == Log2Floor(a, 2000)
                        r == ((a % 125) * Pow2Mod125(48 - k)) % 125
                    IN  IF 2 * r < 125 THEN m ELSE m + 1

\* One line of the console summary table.
SummaryLine(res) ==
  [msg |-> "summary",
   algorithm |-> Get(res, "Algorithm", None).val,
   type |-> Get(res, "Type", None).val,
   keygen |-> Fmt3(Get(res, "Keygen (ms)", None).val),
   sign |-> Fmt3(Get(res, "Encaps/Sign (ms)", None).val),
   verify |-> Fmt3(Get(res, "Decaps/Verify (ms)", None).val),
   sigsize |-> Get(res, "Signature (bytes)", StrCell("N/A")).val]

\* The benchmark function's frame is gone: its locals no longer exist.
FrameGone ==
  /\ details' = None
  /\ iter' = 0
  /\ keygen_times' = <<>>
  /\ op2_times' = <<>>
  /\ op3_times' = <<>>
  /\ check' = None

\* Mutant of Propagate: main catches every exception and goes on with the
\* next algorithm.
PropagateCaught(e) ==
  /\ handles' = handles \ {Alg}
  /\ FrameGone
  /\ pc' = "main_loop"
  /\ idx' = idx + 1
  /\ settled' = Append(settled, [alg |-> Alg, outcome |-> "raised"])
  /\ UNCHANGED << env, cat, all_results, result, clock, fs, stdout, exit_code,
                  error, calls, started, checks_ok >>

\* An exception other than MechanismNotEnabledError raised inside a benchmark
\* function: the with block releases the handle (if it was opened), main's
\* except clause does not match, the interpreter prints the traceback and
\* exits with status 1.
Propagate(e) ==
  /\ handles' = handles \ {Alg}
  /\ FrameGone
  /\ pc' = "failed"
  /\ error' = e
  /\ exit_code' = 1
  /\ settled' = Append(settled, [alg |-> Alg, outcome |-> "raised"])
  /\ UNCHANGED << env, cat, idx, all_results, result, clock, fs, stdout,
                  calls, started, checks_ok >>

\* main, `for alg in ...` with a next element: call benchmark_kem /
\* benchmark_sig, which first prints its banner.
CallBenchmark ==
  /\ pc = "main_loop"
  /\ idx <= Len(Algorithms(cat))
  /\ pc' = "construct"
  /\ stdout' = Append(stdout, [msg |-> "Benchmarking", type |-> cat, alg |-> Alg])
  /\ started' = Append(started, Alg)
  /\ UNCHANGED << env, cat, idx, all_results, result, handles, bench, clock,
                  fs, exit_code, error, calls, settled, checks_ok >>

\* main, the KEM loop is exhausted: go on to the Signature loop.
EndKemLoop ==
  /\ pc = "main_loop"
  /\ cat = "KEM"
  /\ idx > Len(Algorithms(cat))
  /\ cat' = "Signature"
  /\ idx' = 1
  /\ UNCHANGED << env, pc, all_results, result, handles, bench, clock, fs,
                  stdout, exit_code, error, calls, started, settled, checks_ok >>

\* main, the Signature loop is exhausted: go on to saving.
EndSigLoop ==
  /\ pc = "main_loop"
  /\ cat = "Signature"
  /\ idx > Len(Algorithms(cat))
  /\ pc' = "save"
  /\ UNCHANGED << env, cat, idx, all_results, result, handles, bench, clock,
                  fs, stdout, exit_code, error, calls, started, settled,
                  checks_ok >>

\* Mutant of ConstructNotEnabled: no except clause, the error ends the run.
ConstructNotEnabledUncaught ==
  /\ pc = "construct"
  /\ Alg \notin avail
  /\ pc' = "failed"
  /\ error' = "MechanismNotEnabledError"
  /\ exit_code' = 1
  /\ settled' = Append(settled, [alg |-> Alg, outcome |-> "raised"])
  /\ UNCHANGED << env, cat, idx, all_results, result, handles, bench, clock,
                  fs, stdout, calls, started, checks_ok >>

\* oqs.KeyEncapsulation(name) / oqs.Signature(name) raises
\* MechanismNotEnabledError; main catches it, prints the skip line and
\* continues with the next algorithm.
ConstructNotEnabled ==
  /\ pc = "construct"
  /\ Alg \notin avail
  /\ stdout' = Append(stdout, [msg |-> "Skipping", alg |-> Alg])
  /\ settled' = Append(settled, [alg |-> Alg, outcome |-> "skipped"])
  /\ idx' = idx + 1
  /\ pc' = "main_loop"
  /\ UNCHANGED << env, cat, all_results, result, handles, bench, clock, fs,
                  exit_code, error, calls, started, checks_ok >>

\* The handle is constructed and entered; details are read, the three lists
\* are created and the "Running N iterations..." line is printed.
ConstructOk ==
  /\ pc = "construct"
  /\ Alg \in avail
  /\ handles' = handles \cup {Alg}
  /\ details' = Details(Alg)
  /\ keygen_times' = <<>>
  /\ op2_times' = <<>>
  /\ op3_times' = <<>>
  /\ iter' = 0
  /\ calls' = <<>>
  /\ stdout' = Append(stdout, [msg |-> "Running", n |-> num_iterations])
  /\ pc' = "for"
  /\ UNCHANGED << env, cat, idx, all_results, result, check, clock, fs,
                  exit_code, error, started, settled, checks_ok >>

\* The constructor of an enabled mechanism raises some other error.
ConstructError ==
  /\ pc = "construct"
  /\ Alg \in avail
  /\ Propagate("LibraryError")

\* `for _ in range(num_iterations)`: one more iteration.
ForNext ==
  /\ pc = "for"
  /\ iter < num_iterations
  /\ pc' = "keygen"
  /\ UNCHANGED << env, cat, idx, all_results, result, handles, bench, clock,
                  fs, stdout, exit_code, error, calls, started, settled,
                  checks_ok >>

\* The range is exhausted: fall through to compiling the results.
ForExit ==
  /\ pc = "for"
  /\ iter >= num_iterations
  /\ pc' = "compile"
  /\ UNCHANGED << env, cat, idx, all_results, result, handles, bench, clock,
                  fs, stdout, exit_code, error, calls, started, settled,
                  checks_ok >>

\* Mutant of Keygen: the sample is inserted at the front of the list.
KeygenPrepend ==
  /\ pc = "keygen"
  /\ \E d \in latency["keygen"] :
       /\ clock' = clock + d
       /\ keygen_times' = << ElapsedMs(clock, clock + d) >> \o keygen_times
       /\ calls' = Append(calls, [step |-> "keygen", iteration |-> iter + 1,
                                  elapsed |-> d])
  /\ pc' = "op2"
  /\ UNCHANGED << env, cat, idx, all_results, result, handles, details, iter,
                  op2_times, op3_times, check, fs, stdout, exit_code, error,
                  started, settled, checks_ok >>

\* Timed key generation (generate_keypair, export_secret_key).
Keygen ==
  /\ pc = "keygen"
  /\ \E d \in latency["keygen"] :
       /\ clock' = clock + d
       /\ keygen_times' = Append(keygen_times, ElapsedMs(clock, clock + d))
       /\ calls' = Append(calls, [step |-> "keygen", iteration |-> iter + 1,
                                  elapsed |-> d])
  /\ pc' = "op2"
  /\ UNCHANGED << env, cat, idx, all_results, result, handles, details, iter,
                  op2_times, op3_times, check, fs, stdout, exit_code, error,
                  started, settled, checks_ok >>

\* Timed encap_secret (KEM) or sign (Signature).
Op2 ==
  /\ pc = "op2"
  /\ \E d \in latency["op2"] :
       /\ clock' = clock + d
       /\ op2_times' = Append(op2_times, ElapsedMs(clock, clock + d))
       /\ calls' = Append(calls, [step |-> "op2", iteration |-> iter + 1,
                                  elapsed |-> d])
  /\ IF cat = "KEM"
     THEN \E ss \in Secrets : check' = [shared_secret_client |-> ss]
     ELSE check' = None
  /\ pc' = "op3"
  /\ UNCHANGED << env, cat, idx, all_results, result, handles, details, iter,
                  keygen_times, op3_times, fs, stdout, exit_code, error,
                  started, settled, checks_ok >>

\* Timed decap_secret (KEM) or verify (Signature).
Op3 ==
  /\ pc = "op3"
  /\ \E d \in latency["op3"] :
       /\ clock' = clock + d
       /\ op3_times' = Append(op3_times, ElapsedMs(clock, clock + d))
       /\ calls' = Append(calls, [step |-> "op3", iteration |-> iter + 1,
                                  elapsed |-> d])
  /\ IF cat = "KEM"
     THEN \E ss \in Secrets :
            check' = [shared_secret_client |-> check.shared_secret_client,
                      shared_secret_server |-> ss]
     ELSE \E b \in BOOLEAN : check' = [is_valid |-> b]
  /\ pc' = "assert"
  /\ UNCHANGED << env, cat, idx, all_results, result, handles, details, iter,
                  keygen_times, op2_times, fs, stdout, exit_code, error,
                  started, settled, checks_ok >>

\* A library call of a timed step raises.
LibraryError ==
  /\ pc \in {"keygen", "op2", "op3"}
  /\ Propagate("LibraryError")

\* The condition of the assert statement.
AssertCondition ==
  IF cat = "KEM"
  THEN check.shared_secret_client = check.shared_secret_server
  ELSE check.is_valid

\* The assert holds: the loop body is done.
AssertPass ==
  /\ pc = "assert"
  /\ AssertCondition
  /\ iter' = iter + 1
  /\ check' = None
  /\ checks_ok' = [checks_ok EXCEPT ![Alg] = @ + 1]
  /\ pc' = "for"
  /\ UNCHANGED << env, cat, idx, all_results, result, handles, details,
                  keygen_times, op2_times, op3_times, clock, fs, stdout,
                  exit_code, error, calls, started, settled >>

\* Mutant of AssertFail: the failed check is ignored and the loop goes on.
AssertFailIgnored ==
  /\ pc = "assert"
  /\ ~AssertCondition
  /\ iter' = iter + 1
  /\ check' = None
  /\ pc' = "for"
  /\ UNCHANGED << env, cat, idx, all_results, result, handles, details,
                  keygen_times, op2_times, op3_times, clock, fs, stdout,
                  exit_code, error, calls, started, settled, checks_ok >>

\* The assert fails: AssertionError.
AssertFail ==
  /\ pc = "assert"
  /\ ~AssertCondition
  /\ Propagate("AssertionError")

\* Mutant of CompileMeanError: the empty-mean error is handled like an
\* unavailable mechanism (logged, target skipped).
CompileMeanSkipped ==
  /\ pc = "compile"
  /\ keygen_times = <<>>
  /\ handles' = handles \ {Alg}
  /\ FrameGone
  /\ stdout' = Append(stdout, [msg |-> "Skipping", alg |-> Alg])
  /\ settled' = Append(settled, [alg |-> Alg, outcome |-> "skipped"])
  /\ idx' = idx + 1
  /\ pc' = "main_loop"
  /\ UNCHANGED << env, cat, all_results, result, clock, fs, exit_code, error,
                  calls, started, checks_ok >>

\* statistics.mean of an empty list raises StatisticsError.
CompileMeanError ==
  /\ pc = "compile"
  /\ keygen_times = <<>>
  /\ Propagate("StatisticsError")

\* Mutant of CompileReturn: the handle is not released on return.
CompileReturnLeak ==
  /\ pc = "compile"
  /\ keygen_times # <<>>
  /\ result' = IF cat = "KEM"
               THEN KemResults(Alg, details, keygen_times, op2_times, op3_times)
               ELSE SigResults(Alg, details, keygen_times, op2_times, op3_times)
  /\ FrameGone
  /\ settled' = Append(settled, [alg |-> Alg, outcome |-> "returned"])
  /\ pc' = "append"
  /\ UNCHANGED << env, cat, idx, all_results, handles, clock, fs, stdout,
                  exit_code, error, calls, started, checks_ok >>

\* The results dict is built and returned; leaving the with block releases
\* the handle.
CompileReturn ==
  /\ pc = "compile"
  /\ keygen_times # <<>>
  /\ result' = IF cat = "KEM"
               THEN KemResults(Alg, details, keygen_times, op2_times, op3_times)
               ELSE SigResults(Alg, details, keygen_times, op2_times, op3_times)
  /\ handles' = handles \ {Alg}
  /\ FrameGone
  /\ settled' = Append(settled, [alg |-> Alg, outcome |-> "returned"])
  /\ pc' = "append"
  /\ UNCHANGED << env, cat, idx, all_results, clock, fs, stdout, exit_code,
                  error, calls, started, checks_ok >>

\* Mutant of AppendResult: the record is inserted at the front.
AppendResultFront ==
  /\ pc = "append"
  /\ all_results' = << result >> \o all_results
  /\ idx' = idx + 1
  /\ pc' = "main_loop"
  /\ UNCHANGED << env, cat, result, handles, bench, clock, fs, stdout,
                  exit_code, error, calls, started, settled, checks_ok >>

\* Mutant of AppendResult: the report is rewritten after every record.
AppendResultFlush ==
  /\ pc = "append"
  /\ all_results' = Append(all_results, result)
  /\ idx' = idx + 1
  /\ pc' = "main_loop"
  /\ dir_exists' = TRUE
  /\ LET header == Keys(all_results'[1])
     IN  file' = Written(header, CsvRows(header, all_results'))
  /\ file_writes' = file_writes + 1
  /\ UNCHANGED << env, cat, result, handles, bench, clock, stdout, exit_code,
                  error, calls, started, settled, checks_ok >>

\* main: all_results.append(result), then the next loop iteration.
AppendResult ==
  /\ pc = "append"
  /\ all_results' = Append(all_results, result)
  /\ idx' = idx + 1
  /\ pc' = "main_loop"
  /\ UNCHANGED << env, cat, result, handles, bench, clock, fs, stdout,
                  exit_code, error, calls, started, settled, checks_ok >>

\* Mutant of SaveEmpty: no emptiness test, all_results[0] raises IndexError.
SaveEmptyIndexError ==
  /\ pc = "save"
  /\ all_results = <<>>
  /\ dir_exists' = TRUE
  /\ pc' = "failed"
  /\ error' = "IndexError"
  /\ exit_code' = 1
  /\ UNCHANGED << env, cat, idx, all_results, result, handles, bench, clock,
                  file, file_writes, stdout, calls, started, settled,
                  checks_ok >>

\* main: nothing to save; print and return.
SaveEmpty ==
  /\ pc = "save"
  /\ all_results = <<>>
  /\ stdout' = Append(stdout, [msg |-> "No results to save. Exiting."])
  /\ pc' = "done"
  /\ exit_code' = 0
  /\ UNCHANGED << env, cat, idx, all_results, result, handles, bench, clock,
                  fs, error, calls, started, settled, checks_ok >>

\* main: makedirs, write header and rows, print the closing lines and the
\* summary table, return.
SaveCsv ==
  /\ pc = "save"
  /\ all_results # <<>>
  /\ dir_exists' = TRUE
  /\ LET header == Keys(all_results[1])
     IN  file' = Written(header, CsvRows(header, all_results))
  /\ file_writes' = file_writes + 1
  /\ stdout' = stdout
                 \o << [msg |-> "Benchmark finished. Results saved", file |-> OUTPUT_CSV_FILE],
                       [msg |-> "Benchmark Summary:"] >>
                 \o [k \in 1..Len(all_results) |-> SummaryLine(all_results[k])]
  /\ pc' = "done"
  /\ exit_code' = 0
  /\ UNCHANGED << env, cat, idx, all_results, result, handles, bench, clock,
                  error, calls, started, settled, checks_ok >>

\* main: os.makedirs raises OSError (made = FALSE), or it succeeds and open
\* raises (made = TRUE); the file is left as it was.
SaveOSError ==
  /\ pc = "save"
  /\ all_results # <<>>
  /\ \E made \in BOOLEAN : dir_exists' = (dir_exists \/ made)
  /\ pc' = "failed"
  /\ error' = "OSError"
  /\ exit_code' = 1
  /\ UNCHANGED << env, cat, idx, all_results, result, handles, bench, clock,
                  file, file_writes, stdout, calls, started, settled,
                  checks_ok >>

\* main: open(.., 'w') has created or truncated the file, then writeheader,
\* writerows or the close of the with block raises OSError (disk full, file
\* size limit): the file holds a prefix of the report, possibly nothing.
SaveWriteError ==
  /\ pc = "save"
  /\ all_results # <<>>
  /\ dir_exists' = TRUE
  /\ LET header == Keys(all_results[1])
         rows == CsvRows(header, all_results)
     IN  \/ \E j \in 0..Len(header) :
              file' = Partial(SubSeq(header, 1, j), <<>>)
         \/ \E k \in 1..Len(rows) :
              file' = Partial(header, SubSeq(rows, 1, k))
  /\ file_writes' = file_writes + 1
  /\ pc' = "failed"
  /\ error' = "OSError"
  /\ exit_code' = 1
  /\ UNCHANGED << env, cat, idx, all_results, result, handles, bench, clock,
                  stdout, calls, started, settled, checks_ok >>

Next ==
  \/ CallBenchmark
  \/ EndKemLoop
  \/ EndSigLoop
  \/ ConstructNotEnabled
  \/ ConstructOk
  \/ ConstructError
  \/ ForNext
  \/ ForExit
  \/ Keygen
  \/ Op2
  \/ Op3
  \/ LibraryError
  \/ AssertPass
  \/ AssertFail
  \/ CompileMeanError
  \/ CompileReturn
  \/ AppendResult
  \/ SaveEmpty
  \/ SaveCsv
  \/ SaveOSError
  \/ SaveWriteError

Spec == Init /\ [][Next]_vars

SpecTiming == InitTiming /\ [][Next]_vars

(* ----------------------------- properties ----------------------------- *)

\* The configured targets in processing order.
ConfiguredOrder == KEM_ALGORITHMS \o SIGNATURE_ALGORITHMS

IsAvailable(a) == a \in avail

\* The Algorithm field of each record of a sequence of records.
AlgorithmsOf(records) ==
  [k \in 1..Len(records) |-> Get(records[k], "Algorithm", None).val]

\* The first column of each row of the written file.
RowAlgorithms == [r \in 1..Len(file.rows) |-> file.rows[r][1].val]

\* The targets whose benchmark has ended, in the order they ended.
SettledAlgorithms == [k \in 1..Len(settled) |-> settled[k].alg]

\* How many rows of the written file carry algorithm a.
RowsFor(a) == Cardinality({r \in 1..Len(file.rows) : file.rows[r][1].val = a})

Terminated == pc \in {"done", "failed"}

\* The failures that are not "mechanism not available".
OtherFailures == {"LibraryError", "AssertionError", "StatisticsError", "OSError"}

\* C1: whatever subset of the targets is unavailable, an unavailable target
\* is skipped (never a crash), the next target is still processed, and a run
\* that meets no other failure ends with exit status 0 having written one
\* row for each available target and none for an unavailable one.
C1_RowCountEqualsAvailable ==
  /\ pc = "failed" => error \in OtherFailures
  /\ \A k \in 1..Len(settled) :
       /\ settled[k].outcome = "skipped" <=> settled[k].alg \notin avail
       /\ ( /\ settled[k].outcome = "skipped"
            /\ k = Len(started)
            /\ k < Len(ConfiguredOrder) ) =>
            /\ pc = "main_loop"
            /\ ENABLED (CallBenchmark \/ EndKemLoop)
  /\ pc = "done" =>
       /\ exit_code = 0
       /\ Len(started) = Len(ConfiguredOrder)
       /\ Len(all_results) = Cardinality(avail)
       /\ IF avail = {}
          THEN file_writes = 0
          ELSE /\ file.state = "written"
               /\ Len(file.rows) = Cardinality(avail)
               /\ \A a \in AllAlgorithms :
                    RowsFor(a) = IF a \in avail THEN 1 ELSE 0

\* A finished run in which a skipped target is followed by a benchmarked one.
C1_Witness ==
  /\ pc = "done"
  /\ file.state = "written"
  /\ \E k \in 1..Len(settled) :
       /\ settled[k].outcome = "skipped"
       /\ k < Len(settled)
       /\ settled[k + 1].outcome = "returned"
  /\ Cardinality(avail) = 2

\* C2: targets are entered in configuration order, KEMs before Signatures,
\* one at a time (a benchmark starts only when every earlier one has ended),
\* and the records, and the rows of the written report, are the configured
\* list with the unavailable targets removed.
C2_ConfigurationOrder ==
  /\ started = SubSeq(ConfiguredOrder, 1, Len(started))
  /\ SettledAlgorithms = SubSeq(ConfiguredOrder, 1, Len(settled))
  /\ Len(settled) <= Len(started)
  /\ Len(started) <= Len(settled) + 1
  /\ pc = "construct" => Len(started) = Len(settled) + 1
  /\ LET n == IF pc = "append" THEN Len(settled) - 1 ELSE Len(settled)
         m == IF pc = "failed" /\ error # "OSError" THEN n - 1 ELSE n
     IN  AlgorithmsOf(all_results) =
           SelectSeq(SubSeq(ConfiguredOrder, 1, m), IsAvailable)
  /\ file.state = "written" =>
       RowAlgorithms = SelectSeq(ConfiguredOrder, IsAvailable)
  /\ file.state = "partial" =>
       RowAlgorithms =
         SubSeq(SelectSeq(ConfiguredOrder, IsAvailable), 1, Len(file.rows))

\* A written report with at least three rows, the first target skipped.
C2_Witness ==
  /\ file.state = "written"
  /\ Len(file.rows) >= 3
  /\ settled[1].outcome = "skipped"

\* C3: a failure other than mechanism-not-available inside a target's
\* benchmark ends the run at once: exit status 1, no later target is
\* entered, nothing further can happen, and the report file is neither
\* created nor overwritten, whatever records had been appended before.
C3_OtherFailureIsFatal ==
  \A k \in 1..Len(settled) :
    settled[k].outcome = "raised" =>
      /\ pc = "failed"
      /\ exit_code = 1
      /\ error \in OtherFailures \ {"OSError"}
      /\ k = Len(settled)
      /\ Len(started) = k
      /\ file_writes = 0
      /\ file \in {Absent, Stale}
      /\ ~ENABLED Next

\* A failed assert after a record had been appended, an old report on disk.
C3_Witness ==
  /\ pc = "failed"
  /\ error = "AssertionError"
  /\ Len(all_results) >= 1
  /\ file = Stale

\* C4: when no configured target is available the run cannot fail, never
\* writes the file, and ends with exit status 0, no error, no record, and
\* "No results to save. Exiting." as its last console line.
C4_AllUnavailable ==
  avail = {} =>
    /\ pc # "failed"
    /\ file_writes = 0
    /\ file \in {Absent, Stale}
    /\ all_results = <<>>
    /\ pc # "done" => ENABLED Next
    /\ pc = "done" =>
         /\ exit_code = 0
         /\ error = None
         /\ stdout[Len(stdout)].msg = "No results to save. Exiting."
         /\ Len(settled) = Len(ConfiguredOrder)

\* The empty run has ended.
C4_Witness ==
  /\ avail = {}
  /\ pc = "done"
  /\ file = Stale

\* C5: every record, appended or just returned, belongs to a target all of
\* whose num_iterations iterations ran with the assert passing (inside the
\* loop every completed iteration is one whose assert passed); once an assert
\* has failed the run is in the failed state and the failing target, with
\* fewer than num_iterations passed checks, has no record.
C5_NoPartialRecord ==
  /\ \A k \in 1..Len(all_results) :
       LET a == AlgorithmsOf(all_results)[k]
       IN  /\ checks_ok[a] = num_iterations
           /\ num_iterations >= 1
  /\ pc = "append" =>
       /\ checks_ok[Get(result, "Algorithm", None).val] = num_iterations
       /\ num_iterations >= 1
  /\ \A a \in AllAlgorithms : checks_ok[a] <= num_iterations
  /\ error = "AssertionError" =>
       /\ pc = "failed"
       /\ checks_ok[Alg] < num_iterations
       /\ \A k \in 1..Len(all_results) : AlgorithmsOf(all_results)[k] # Alg
  /\ (pc \in {"for", "keygen", "op2", "op3", "assert", "compile"}) =>
       checks_ok[Alg] = iter

\* The assert failed in the second iteration of a target, after the first
\* iteration had passed, with an earlier record present.
C5_Witness ==
  /\ error = "AssertionError"
  /\ checks_ok[Alg] = 1
  /\ Len(all_results) >= 1

\* C6: at most one handle is open, it is the current target's, and none is
\* open outside the body of a benchmark function: not when a benchmark is
\* entered, when a record is appended, when the report is saved, or when the
\* run has ended in either way.
C6_HandleReleased ==
  /\ Cardinality(handles) <= 1
  /\ handles # {} => (handles = {Alg} /\ pc \in {"for", "keygen", "op2", "op3", "assert", "compile"})
  /\ pc \in {"main_loop", "construct", "append", "save", "done", "failed"} =>
       handles = {}
  /\ file_writes > 0 => handles = {}

\* Handles were opened and released on all three exit paths: two records
\* returned, then a library error in the middle of the third target's loop.
C6_Witness ==
  /\ pc = "failed"
  /\ error = "LibraryError"
  /\ Len(all_results) = 2
  /\ calls # <<>>
  /\ handles = {}

\* C7 as stated: every run that returns from main has written the
\* destination exactly once.
C7_Original == pc = "done" => file_writes = 1

\* C7 amended: the destination file is opened for writing at most once per
\* run, only by the save step, after every configured target has been
\* benchmarked or skipped and with no benchmark in progress; a run that
\* returns with at least one record has written the whole report exactly
\* once; a run with no record, and a run ended by a failure inside a
\* benchmark, never touch the file; a run whose save step fails has either
\* left the file as it was or left a prefix of the report.
C7_WrittenAtMostOnceAtEnd ==
  /\ file_writes <= 1
  /\ pc = "done" => (file_writes = 1 <=> all_results # <<>>)
  /\ pc \notin {"done", "failed"} => file_writes = 0
  /\ (pc = "failed" /\ error # "OSError") => file_writes = 0
  /\ file_writes = 1 =>
       /\ all_results # <<>>
       /\ handles = {}
       /\ Len(settled) = Len(ConfiguredOrder)
       /\ Len(started) = Len(ConfiguredOrder)
       /\ \A k \in 1..Len(settled) : settled[k].outcome \in {"returned", "skipped"}
  /\ file_writes = 0 <=> file \in {Absent, Stale}
  /\ file.state = "written" <=> (pc = "done" /\ all_results # <<>>)
  /\ file.state = "partial" <=> (pc = "failed" /\ file_writes = 1)

\* A run that wrote the report over an old one.
C7_Witness ==
  /\ pc = "done"
  /\ file_writes = 1
  /\ file.state = "written"
  /\ Len(file.rows) = 1

\* The samples the completed calls of one step produced, in call order.
RECURSIVE SamplesOf(_, _)
SamplesOf(log, step) ==
  IF log = <<>> THEN <<>>
  ELSE IF Head(log).step = step
       THEN << 1000 * Head(log).elapsed >> \o SamplesOf(Tail(log), step)
       ELSE SamplesOf(Tail(log), step)

StepOrder == << "keygen", "op2", "op3" >>

\* C8: while a handle is open the completed timed steps are keygen, second
\* operation, third operation, repeated once per iteration in that order;
\* each list holds exactly the samples of its step in iteration order; and
\* when the loop has ended each list has exactly num_iterations entries.
C8_ThreeSequencesOfLengthN ==
  handles # {} =>
    /\ \A j \in 1..Len(calls) :
         /\ calls[j].step = StepOrder[((j - 1) % 3) + 1]
         /\ calls[j].iteration = ((j - 1) \div 3) + 1
    /\ keygen_times = SamplesOf(calls, "keygen")
    /\ op2_times = SamplesOf(calls, "op2")
    /\ op3_times = SamplesOf(calls, "op3")
    /\ \A k \in 1..Len(keygen_times) : keygen_times[k] >= 0
    /\ \A k \in 1..Len(op2_times) : op2_times[k] >= 0
    /\ \A k \in 1..Len(op3_times) : op3_times[k] >= 0
    /\ pc = "for" => Len(calls) = 3 * iter
    /\ pc = "compile" =>
         /\ Len(calls) = 3 * num_iterations
         /\ Len(keygen_times) = num_iterations
         /\ Len(op2_times) = num_iterations
         /\ Len(op3_times) = num_iterations

\* The loop has ended after two iterations whose keygen samples differ.
C8_Witness ==
  /\ pc = "compile"
  /\ num_iterations = 2
  /\ Len(keygen_times) = 2
  /\ keygen_times[1] # keygen_times[2]
  /\ op3_times[1] # op3_times[2]

\* The column order of the report.
FieldOrder ==
  << "Algorithm", "Type", "Public Key (bytes)", "Secret Key (bytes)",
     "Ciphertext (bytes)", "Signature (bytes)", "Keygen (ms)",
     "Encaps/Sign (ms)", "Decaps/Verify (ms)" >>

\* A record has the nine fields in order and exactly one numeric size among
\* ciphertext and signature, the one of its category.
WellFormedRecord(rec) ==
  /\ Keys(rec) = FieldOrder
  /\ rec[2].val.val \in {"KEM", "Signature"}
  /\ rec[2].val.val = "KEM" =>
       /\ rec[5].val.kind = "int"
       /\ rec[6].val.kind = "str"
       /\ rec[6].val.val = "N/A"
  /\ rec[2].val.val = "Signature" =>
       /\ rec[5].val.kind = "str"
       /\ rec[5].val.val = "N/A"
       /\ rec[6].val.kind = "int"

\* A row of the file, read under the header, is a well-formed record.
WellFormedRow(row) ==
  /\ Len(row) = Len(FieldOrder)
  /\ row[2].val \in {"KEM", "Signature"}
  /\ row[2].val = "KEM" =>
       (row[5].kind = "int" /\ row[6].kind = "str" /\ row[6].val = "N/A")
  /\ row[2].val = "Signature" =>
       (row[5].kind = "str" /\ row[5].val = "N/A" /\ row[6].kind = "int")

\* C9: every record, returned or appended, has the nine fields in the fixed
\* order with the ciphertext and signature sizes mutually exclusive by
\* category, and a written file has that order as its header, whichever
\* record came first, and rows of the same shape.
C9_FixedSchema ==
  /\ \A k \in 1..Len(all_results) : WellFormedRecord(all_results[k])
  /\ pc = "append" => WellFormedRecord(result)
  /\ file.state = "written" =>
       /\ file.header = FieldOrder
       /\ \A r \in 1..Len(file.rows) : WellFormedRow(file.rows[r])
  /\ file.state = "partial" =>
       /\ file.header = SubSeq(FieldOrder, 1, Len(file.header))
       /\ \A r \in 1..Len(file.rows) : WellFormedRow(file.rows[r])

\* A written report whose header was taken from a Signature record (the KEM
\* is unavailable) and that has at least two rows.
C9_Witness ==
  /\ file.state = "written"
  /\ file.rows[1][2].val = "Signature"
  /\ Len(file.rows) >= 2

\* C10: with an iteration count of 0 the loop body never runs, no record is
\* ever returned or appended, an available target is never skipped, the
\* empty mean raises StatisticsError, which ends the run with exit status 1
\* and the file unwritten; only a run with no available target returns.
C10_ZeroIterationsFatal ==
  num_iterations = 0 =>
    /\ all_results = <<>>
    /\ pc \notin {"keygen", "op2", "op3", "assert", "append"}
    /\ calls = <<>>
    /\ keygen_times = <<>>
    /\ \A k \in 1..Len(settled) :
         /\ settled[k].outcome # "returned"
         /\ settled[k].outcome = "skipped" => settled[k].alg \notin avail
    /\ file_writes = 0
    /\ file \in {Absent, Stale}
    /\ pc = "done" => avail = {}
    /\ error = "StatisticsError" =>
         /\ pc = "failed"
         /\ exit_code = 1
         /\ Alg \in avail
         /\ settled[Len(settled)] = [alg |-> Alg, outcome |-> "raised"]
         /\ ~ENABLED Next

\* The empty mean ended the run at the second target, the first skipped.
C10_Witness ==
  /\ num_iterations = 0
  /\ error = "StatisticsError"
  /\ Len(settled) = 2
  /\ settled[1].outcome = "skipped"

====
